---- MODULE Spec2Model ----
(***************************************************************************)
(* Host-side emulation of avr-libc <util/atomic.h>: ATOMIC_BLOCK and       *)
(* NONATOMIC_BLOCK implemented with one process-wide recursive pthread     *)
(* mutex (_atomic_mutex) and one nesting counter (_atomic_count).          *)
(*                                                                         *)
(* Every thread runs an arbitrary nesting of the four block forms.  A      *)
(* block is the for statement of the macro: the declaration of sreg_save   *)
(* (with its cleanup handler) and of __ToDo (initialised by the entry      *)
(* action), the loop test, the body, the loop step, and the cleanup        *)
(* handler that runs when sreg_save goes out of scope.  __cli and __sei    *)
(* are split at their accesses to shared memory: the mutex operation, the  *)
(* read of _atomic_count and the write of _atomic_count.  Steps that touch *)
(* only the thread's own variables (__ToDo, the loop test and step) are    *)
(* taken together with the step before them.                               *)
(***************************************************************************)
EXTENDS Naturals, Sequences, FiniteSets

VARIABLES
    _atomic_mutex,   \* [owner, count]: the recursive mutex
    _atomic_count,   \* uint32_t, as <<high half, low half>>
    stderr,          \* number of warning lines written to stderr
    stack,           \* per thread: the blocks it is in, innermost last
    pc,              \* per thread: position in the code
    tmp,             \* per thread: the value of _atomic_count it has read
    budget,          \* blocks that may still be entered in this run
    history          \* whether the frames record what held before the block

vars == <<_atomic_mutex, _atomic_count, stderr, stack, pc, tmp, budget, history>>

----------------------------------------------------------------------------
(* Bounds *)

MaxDepth == 3           \* deepest nesting of blocks in one thread
MaxSections == 3        \* blocks entered in a run, all threads together
MaxSectionsSingle == 4  \* blocks entered in a run of the main thread alone

Threads == {"t1", "t2"}
MainThread == "t1"
NoThread == "none"

----------------------------------------------------------------------------
(* uint32_t arithmetic on two 16-bit halves *)

Half == 65536

Zero32 == <<0, 0>>

NonZero(c) == c # Zero32

Inc32(c) ==
    IF c[2] = Half - 1 THEN <<(c[1] + 1) % Half, 0>> ELSE <<c[1], c[2] + 1>>

\* a decrement that stops at 0
Dec32Saturating(c) ==
    IF c = Zero32 THEN Zero32
    ELSE IF c[2] = 0 THEN <<c[1] - 1, Half - 1>> ELSE <<c[1], c[2] - 1>>

Dec32(c) ==
    IF c[2] = 0 THEN <<(c[1] + Half - 1) % Half, Half - 1>> ELSE <<c[1], c[2] - 1>>

----------------------------------------------------------------------------
(* The recursive mutex *)

MutexInit == [owner |-> NoThread, count |-> 0]

\* pthread_mutex_lock returns at once for the owner and for a free mutex
CanLock(m, t) == m.owner \in {NoThread, t}

pthread_mutex_lock(m, t) == [owner |-> t, count |-> m.count + 1]

\* an unlock that does not check the owner
pthread_mutex_unlock_any(m, t) ==
    IF m.count <= 1 THEN [owner |-> NoThread, count |-> 0]
    ELSE [m EXCEPT !.count = @ - 1]

\* pthread_mutex_unlock of a recursive mutex fails (EPERM) for a non-owner
pthread_mutex_unlock(m, t) ==
    IF m.owner # t THEN m
    ELSE IF m.count = 1 THEN MutexInit
    ELSE [m EXCEPT !.count = @ - 1]

\* recursion count with which t holds the mutex, 0 when it does not own it
Held(m, t) == IF m.owner = t THEN m.count ELSE 0

Owns(t) == _atomic_mutex.owner = t

----------------------------------------------------------------------------
(* The four policies *)

Policies ==
    {"ATOMIC_RESTORESTATE", "ATOMIC_FORCEON", "NONATOMIC_RESTORESTATE", "NONATOMIC_FORCEOFF"}

AtomicPolicies == {"ATOMIC_RESTORESTATE", "ATOMIC_FORCEON"}

\* initial value of sreg_save, passed as `type` to __cli and __sei
ATOMIC_RESTORESTATE == 0
ATOMIC_FORCEON == 1
NONATOMIC_RESTORESTATE == 0
NONATOMIC_FORCEOFF == 1

\* every policy with the diagnostic on
SregInitAllOn(p) == 1

SregInit(p) ==
    CASE p = "ATOMIC_RESTORESTATE" -> ATOMIC_RESTORESTATE
      [] p = "ATOMIC_FORCEON" -> ATOMIC_FORCEON
      [] p = "NONATOMIC_RESTORESTATE" -> NONATOMIC_RESTORESTATE
      [] p = "NONATOMIC_FORCEOFF" -> NONATOMIC_FORCEOFF

\* ATOMIC_BLOCK starts with __iCliRetVal, NONATOMIC_BLOCK with __iSeiRetVal
EntryPc(p) == IF p \in AtomicPolicies THEN "cli_lock" ELSE "sei_load"

\* the cleanup handler: __iSeiParam for ATOMIC_*, __iCliParam for NONATOMIC_*
CleanupPc(p) == IF p \in AtomicPolicies THEN "sei_load" ELSE "cli_lock"

----------------------------------------------------------------------------
(* Blocks *)

Top(t) == stack[t][Len(stack[t])]

SetTop(t, f) == [stack EXCEPT ![t][Len(stack[t])] = f]

InBlock(t) == Len(stack[t]) > 0

\* the frame of a block being entered: sreg_save and __ToDo, the position in
\* the for statement (phase), the jump that is leaving the block (exitPath),
\* how often its parts have run (entered, bodies, ran) and, in a run with
\* history, what held before the block, the warnings of its entry action and
\* of its cleanup handler, and the blocks that were nested directly in it
NewFrame(p, t) ==
    [ policy |-> p,
      sreg_save |-> SregInit(p),
      ToDo |-> 0,
      phase |-> "init",
      exitPath |-> "none",
      heldBefore |-> IF history THEN Held(_atomic_mutex, t) ELSE 0,
      countBefore |-> IF history THEN _atomic_count ELSE Zero32,
      errBefore |-> IF history THEN stderr ELSE 0,
      entered |-> 0,
      bodies |-> 0,
      ran |-> 0,
      warnIn |-> 0,
      warnOut |-> 0,
      sub |-> <<>> ]

\* the loop test of the for statement
LoopTest(f) == f.ToDo # 0

\* a loop step that leaves __ToDo set
LoopStepKeepsToDo(f) == f

\* the loop step of the for statement: __ToDo = 0
LoopStep(f) == [f EXCEPT !.ToDo = 0]

\* a cleanup tied to the loop and not to the scope: break and return skip it
LoopOnlyCleanup(f, path) ==
    IF path \in {"break", "return"}
    THEN [f EXCEPT !.phase = "left", !.exitPath = path]
    ELSE [f EXCEPT !.phase = "cleanup", !.ran = @ + 1, !.exitPath = path]

\* sreg_save goes out of scope, by whatever path: its cleanup handler is called
BeginCleanup(f, path) ==
    [f EXCEPT !.phase = "cleanup", !.ran = @ + 1, !.exitPath = path]

\* the loop test after the entry action or after the loop step: into the
\* body, or out of the loop and so out of the scope of sreg_save
Test(f, path) ==
    IF LoopTest(f)
    THEN [f EXCEPT !.phase = "body", !.bodies = @ + 1]
    ELSE BeginCleanup(f, path)

\* where the thread is after its innermost frame became f
PcOf(f) ==
    CASE f.phase = "init" -> EntryPc(f.policy)
      [] f.phase = "body" -> "run"
      [] f.phase = "cleanup" -> CleanupPc(f.policy)
      [] f.phase = "left" -> "leave"

\* what a block leaves in the history of the block around it
Summary(f) ==
    [ policy |-> f.policy, leaf |-> f.sub = <<>>,
      warnIn |-> f.warnIn, warnOut |-> f.warnOut ]

----------------------------------------------------------------------------
Init ==
    /\ _atomic_mutex = MutexInit
    /\ _atomic_count = Zero32
    /\ stderr = 0
    /\ stack = [t \in Threads |-> <<>>]
    /\ pc = [t \in Threads |-> "run"]
    /\ tmp = [t \in Threads |-> Zero32]
    /\ budget = MaxSections
    /\ history = FALSE

InitSingle ==
    /\ _atomic_mutex = MutexInit
    /\ _atomic_count = Zero32
    /\ stderr = 0
    /\ stack = [t \in Threads |-> <<>>]
    /\ pc = [t \in Threads |-> IF t = MainThread THEN "run" ELSE "exit"]
    /\ tmp = [t \in Threads |-> Zero32]
    /\ budget = MaxSectionsSingle
    /\ history = TRUE

----------------------------------------------------------------------------
(* __cli and __sei *)

\* the condition of the if in __cli: the value before the increment, and type
CliWarns(old, type) == NonZero(old) /\ type # 0

\* a test of the value before the decrement
SeiWarnsBefore(old, type) == NonZero(old) /\ type # 0

\* the condition of the if in __sei: the value after the decrement, and type
SeiWarns(old, type) == NonZero(Dec32(old)) /\ type # 0

\* a warning that ends the block
WarnedAborts(f, w) == IF w = 1 THEN [f EXCEPT !.phase = "left"] ELSE f

\* a warning of the entry action or of the cleanup handler of frame f
Warned(f, w) ==
    IF ~history THEN f
    ELSE IF f.phase = "init" THEN [f EXCEPT !.warnIn = @ + w]
    ELSE [f EXCEPT !.warnOut = @ + w]

\* __cli or __sei returns.  In the entry action __iCliRetVal / __iSeiRetVal
\* give 1 to __ToDo and the loop test follows; the cleanup handler
\* (__iSeiParam / __iCliParam) returns to the end of the scope.
AfterCall(f) ==
    IF f.phase = "init"
    THEN Test([f EXCEPT !.ToDo = 1, !.entered = @ + 1], "fall")
    ELSE [f EXCEPT !.phase = "left"]

\* __cli: pthread_mutex_lock(&_atomic_mutex)
__cli_lock(t) ==
    /\ pc[t] = "cli_lock"
    /\ CanLock(_atomic_mutex, t)
    /\ _atomic_mutex' = pthread_mutex_lock(_atomic_mutex, t)
    /\ pc' = [pc EXCEPT ![t] = "cli_load"]
    /\ UNCHANGED <<_atomic_count, stderr, stack, tmp, budget, history>>

\* __cli: the read of _atomic_count++
__cli_load(t) ==
    /\ pc[t] = "cli_load"
    /\ tmp' = [tmp EXCEPT ![t] = _atomic_count]
    /\ pc' = [pc EXCEPT ![t] = "cli_store"]
    /\ UNCHANGED <<_atomic_mutex, _atomic_count, stderr, stack, budget, history>>

\* __cli: the write of _atomic_count++, the warning, and the return
__cli_store(t) ==
    /\ pc[t] = "cli_store"
    /\ LET w == IF CliWarns(tmp[t], Top(t).sreg_save) THEN 1 ELSE 0
           f == AfterCall(Warned(Top(t), w))
       IN /\ _atomic_count' = Inc32(tmp[t])
          /\ stderr' = stderr + w
          /\ stack' = SetTop(t, f)
          /\ pc' = [pc EXCEPT ![t] = PcOf(f)]
    /\ tmp' = [tmp EXCEPT ![t] = Zero32]
    /\ UNCHANGED <<_atomic_mutex, budget, history>>

\* __sei: the read of --_atomic_count
__sei_load(t) ==
    /\ pc[t] = "sei_load"
    /\ tmp' = [tmp EXCEPT ![t] = _atomic_count]
    /\ pc' = [pc EXCEPT ![t] = "sei_store"]
    /\ UNCHANGED <<_atomic_mutex, _atomic_count, stderr, stack, budget, history>>

\* __sei: the write of --_atomic_count, and the warning
__sei_store(t) ==
    /\ pc[t] = "sei_store"
    /\ LET w == IF SeiWarns(tmp[t], Top(t).sreg_save) THEN 1 ELSE 0
       IN /\ _atomic_count' = Dec32(tmp[t])
          /\ stderr' = stderr + w
          /\ stack' = SetTop(t, Warned(Top(t), w))
    /\ tmp' = [tmp EXCEPT ![t] = Zero32]
    /\ pc' = [pc EXCEPT ![t] = "sei_unlock"]
    /\ UNCHANGED <<_atomic_mutex, budget, history>>

\* __sei: pthread_mutex_unlock(&_atomic_mutex), and the return
__sei_unlock(t) ==
    /\ pc[t] = "sei_unlock"
    /\ _atomic_mutex' = pthread_mutex_unlock(_atomic_mutex, t)
    /\ LET f == AfterCall(Top(t))
       IN /\ stack' = SetTop(t, f)
          /\ pc' = [pc EXCEPT ![t] = PcOf(f)]
    /\ UNCHANGED <<_atomic_count, stderr, tmp, budget, history>>

----------------------------------------------------------------------------
(* The for statement of ATOMIC_BLOCK / NONATOMIC_BLOCK *)

\* for ( type, __ToDo = __iCliRetVal(sreg_save) ...: sreg_save is declared and
\* the entry action is called
Enter(t, p) ==
    /\ pc[t] = "run"
    /\ budget > 0
    /\ Len(stack[t]) < MaxDepth
    /\ stack' = [stack EXCEPT ![t] = Append(@, NewFrame(p, t))]
    /\ pc' = [pc EXCEPT ![t] = EntryPc(p)]
    /\ budget' = budget - 1
    /\ UNCHANGED <<_atomic_mutex, _atomic_count, stderr, tmp, history>>

\* the end of the body, or continue; in it: the loop step, then the loop test
EndOfBody(t, path) ==
    /\ pc[t] = "run"
    /\ InBlock(t)
    /\ LET f == Test(LoopStep(Top(t)), path)
       IN /\ stack' = SetTop(t, f)
          /\ pc' = [pc EXCEPT ![t] = PcOf(f)]
    /\ UNCHANGED <<_atomic_mutex, _atomic_count, stderr, tmp, budget, history>>

FallThrough(t) == EndOfBody(t, "fall")

Continue(t) == EndOfBody(t, "continue")

\* break; or return; in the body: out of the loop and of the scope
JumpOut(t, path) ==
    /\ pc[t] = "run"
    /\ InBlock(t)
    /\ LET f == BeginCleanup(Top(t), path)
       IN /\ stack' = SetTop(t, f)
          /\ pc' = [pc EXCEPT ![t] = PcOf(f)]
    /\ UNCHANGED <<_atomic_mutex, _atomic_count, stderr, tmp, budget, history>>

Break(t) == JumpOut(t, "break")

\* return; leaves every block of the function, innermost first
Return(t) == JumpOut(t, "return")

\* the cleanup handler has returned: the block is left.  Under a return the
\* block around it is left next.
Leave(t) ==
    /\ pc[t] = "leave"
    /\ LET n == Len(stack[t])
           rest == SubSeq(stack[t], 1, n - 1)
       IN IF n = 1
          THEN /\ stack' = [stack EXCEPT ![t] = <<>>]
               /\ pc' = [pc EXCEPT ![t] = "run"]
          ELSE LET parent == IF history
                             THEN [rest[n - 1] EXCEPT !.sub = Append(@, Summary(Top(t)))]
                             ELSE rest[n - 1]
                   f == IF Top(t).exitPath = "return"
                        THEN BeginCleanup(parent, "return") ELSE parent
               IN /\ stack' = [stack EXCEPT ![t] = [rest EXCEPT ![n - 1] = f]]
                  /\ pc' = [pc EXCEPT ![t] = PcOf(f)]
    /\ UNCHANGED <<_atomic_mutex, _atomic_count, stderr, tmp, budget, history>>

\* the thread function returns
ThreadExit(t) ==
    /\ pc[t] = "run"
    /\ ~InBlock(t)
    /\ pc' = [pc EXCEPT ![t] = "exit"]
    /\ UNCHANGED <<_atomic_mutex, _atomic_count, stderr, stack, tmp, budget, history>>

Next ==
    \E t \in Threads :
        \/ \E p \in Policies : Enter(t, p)
        \/ __cli_lock(t)
        \/ __cli_load(t)
        \/ __cli_store(t)
        \/ __sei_load(t)
        \/ __sei_store(t)
        \/ __sei_unlock(t)
        \/ FallThrough(t)
        \/ Continue(t)
        \/ Break(t)
        \/ Return(t)
        \/ Leave(t)
        \/ ThreadExit(t)

Spec == Init /\ [][Next]_vars

SpecSingle == InitSingle /\ [][Next]_vars

----------------------------------------------------------------------------
(* Mutual exclusion *)

Frames(t) == {stack[t][i] : i \in 1..Len(stack[t])}

\* t executes a body, and its innermost block is an ATOMIC_BLOCK
InAtomicBody(t) ==
    InBlock(t) /\ pc[t] = "run" /\ Top(t).policy \in AtomicPolicies

\* t executes a body, and its innermost block is a NONATOMIC_BLOCK
InNonAtomicBody(t) ==
    InBlock(t) /\ pc[t] = "run" /\ Top(t).policy \notin AtomicPolicies

\* C1: every thread in the body of an ATOMIC_BLOCK (its innermost block) owns
\* _atomic_mutex, and no two threads are in such a body at once
MutualExclusion ==
    /\ \A t \in Threads : InAtomicBody(t) => Owns(t)
    /\ \A t, u \in Threads : InAtomicBody(t) /\ InAtomicBody(u) => t = u

\* one thread is in a nested ATOMIC_BLOCK body while another waits in __cli
\* at the entry of its own ATOMIC_BLOCK
MutualExclusionWitness ==
    \E t, u \in Threads :
        /\ t # u
        /\ InAtomicBody(t) /\ Len(stack[t]) = 2
        /\ pc[u] = "cli_lock" /\ Top(u).phase = "init"
        /\ ~CanLock(_atomic_mutex, u)

----------------------------------------------------------------------------
(* Round trip, exit action, forced state, balance *)

\* t has left its innermost block: the cleanup handler has returned
Left(t) == InBlock(t) /\ pc[t] = "leave"

\* C2: when the outermost block of a thread has been left, the thread holds
\* the lock with the recursion count it had before the block was entered
RestoreRoundTrip ==
    \A t \in Threads :
        Left(t) /\ Len(stack[t]) = 1 =>
            Held(_atomic_mutex, t) = Top(t).heldBefore

\* C3: the cleanup handler of a block runs exactly once by the time the block
\* is left, on every exit path; it never runs twice, never for a block whose
\* entry action has not completed, and never while a nested block is active
ExitActionOnce ==
    \A t \in Threads :
        /\ \A i \in 1..Len(stack[t]) :
              LET f == stack[t][i] IN
              /\ f.ran <= 1
              /\ f.phase = "left" => f.ran = 1
              /\ f.ran = 1 => f.entered = 1
              /\ i < Len(stack[t]) => f.ran = 0 /\ f.phase = "body"
        /\ pc[t] = "leave" => InBlock(t) /\ Top(t).phase = "left"
        /\ pc[t] = "exit" => ~InBlock(t)

\* an inner block has been left by a return statement, after its handler ran
ExitActionOnceWitness ==
    \E t \in Threads :
        /\ Left(t) /\ Len(stack[t]) = 2
        /\ Top(t).exitPath = "return" /\ Top(t).ran = 1

\* C4: when an ATOMIC_BLOCK(ATOMIC_FORCEON) has been left the thread does not
\* hold the lock, and when a NONATOMIC_BLOCK(NONATOMIC_FORCEOFF) has been left
\* it holds the lock
ForcePoliciesForce ==
    \A t \in Threads :
        Left(t) =>
            /\ Top(t).policy = "ATOMIC_FORCEON" => Held(_atomic_mutex, t) = 0
            /\ Top(t).policy = "NONATOMIC_FORCEOFF" => Held(_atomic_mutex, t) > 0

\* C5: when a block has been left by a thread that runs alone, its entry
\* action and its cleanup handler have each run once and _atomic_count has
\* the value it had before the block was entered
DepthBalance ==
    \A t \in Threads :
        Left(t) =>
            /\ Top(t).entered = 1 /\ Top(t).ran = 1
            /\ _atomic_count = Top(t).countBefore

\* a NONATOMIC_BLOCK entered with _atomic_count = 0 (the counter wraps) inside
\* no other block has been left by a return statement
DepthBalanceWitness ==
    \E t \in Threads :
        /\ Left(t) /\ Len(stack[t]) = 1
        /\ Top(t).policy = "NONATOMIC_RESTORESTATE"
        /\ Top(t).countBefore = Zero32
        /\ Top(t).exitPath = "return"
        /\ Len(Top(t).sub) = 1

\* C6: a thread in the body of a NONATOMIC_BLOCK (its innermost block) does
\* not own _atomic_mutex, and when the block has been left it owns it again
NonAtomicOpens ==
    \A t \in Threads :
        /\ InNonAtomicBody(t) => ~Owns(t)
        /\ Left(t) /\ Top(t).policy \notin AtomicPolicies => Owns(t)

----------------------------------------------------------------------------
(* The nesting diagnostic *)

\* f is an atomic block entered with _atomic_count = 0 that has been left, and
\* the one block nested in it was an ATOMIC_BLOCK with type = 1 and no block
\* nested in it
NestedScenario(f) ==
    /\ f.policy \in AtomicPolicies
    /\ f.countBefore = Zero32
    /\ f.phase = "left"
    /\ Len(f.sub) = 1
    /\ f.sub[1].policy = "ATOMIC_FORCEON"
    /\ f.sub[1].leaf

\* C7: in that scenario, run by one thread, the inner acquire and the inner
\* release have each written one warning, the outer acquire and the outer
\* release none, and two warnings were written in all
NestedDiagnosticScenario ==
    \A t \in Threads :
        Left(t) /\ NestedScenario(Top(t)) =>
            /\ Top(t).sub[1].warnIn = 1
            /\ Top(t).sub[1].warnOut = 1
            /\ Top(t).warnIn = 0
            /\ Top(t).warnOut = 0
            /\ stderr = Top(t).errBefore + 2

\* the scenario has been run with an outer block that has the diagnostic on
NestedDiagnosticScenarioWitness ==
    \E t \in Threads :
        /\ Left(t) /\ NestedScenario(Top(t))
        /\ Top(t).policy = "ATOMIC_FORCEON"
        /\ Len(stack[t]) = 1

\* C8 as claimed: every policy passes a non-zero type, so an
\* ATOMIC_BLOCK(ATOMIC_RESTORESTATE) entered while _atomic_count >= 1 has
\* written the warning in its entry action
AllPoliciesDiagnose ==
    \A t \in Threads : \A f \in Frames(t) :
        f.policy = "ATOMIC_RESTORESTATE" /\ f.entered = 1 /\ NonZero(f.countBefore) =>
            f.sreg_save # 0 /\ f.warnIn = 1

\* C8 as amended: the two force policies pass type = 1 and the two restore
\* policies type = 0; a block of a restore policy writes no warning, and an
\* ATOMIC_BLOCK(ATOMIC_FORCEON) entered by a thread that runs alone while
\* _atomic_count is not 0 has written the warning in its entry action
OnlyForcePoliciesDiagnose ==
    \A t \in Threads : \A f \in Frames(t) :
        /\ f.sreg_save = (IF f.policy \in {"ATOMIC_FORCEON", "NONATOMIC_FORCEOFF"} THEN 1 ELSE 0)
        /\ f.policy \in {"ATOMIC_RESTORESTATE", "NONATOMIC_RESTORESTATE"} =>
              f.warnIn = 0 /\ f.warnOut = 0
        /\ f.policy = "ATOMIC_FORCEON" /\ f.entered = 1 /\ NonZero(f.countBefore) =>
              f.warnIn = 1

\* inside an ATOMIC_BLOCK(ATOMIC_FORCEON) that has warned, an
\* ATOMIC_BLOCK(ATOMIC_RESTORESTATE) was entered with _atomic_count = 2 and
\* has been left without a warning
OnlyForcePoliciesDiagnoseWitness ==
    \E t \in Threads :
        /\ Left(t) /\ Len(stack[t]) = 3
        /\ Top(t).policy = "ATOMIC_RESTORESTATE"
        /\ Top(t).countBefore = <<0, 2>>
        /\ Top(t).warnIn = 0 /\ Top(t).warnOut = 0
        /\ stack[t][2].policy = "ATOMIC_FORCEON" /\ stack[t][2].warnIn = 1

----------------------------------------------------------------------------
(* The counter and the lock *)

\* t is in the entry action of an ATOMIC_BLOCK nested in a block in which it
\* already owned the mutex
Reentering(t) ==
    /\ InBlock(t) /\ Top(t).policy \in AtomicPolicies /\ Top(t).phase = "init"
    /\ Owns(t)

\* C9: a thread that owns the mutex and enters a nested ATOMIC_BLOCK is not
\* made to wait by pthread_mutex_lock, and its write of _atomic_count++
\* raises the counter by exactly 1
ReentrantAcquire ==
    \A t \in Threads :
        /\ Reentering(t) /\ pc[t] = "cli_lock" => CanLock(_atomic_mutex, t)
        /\ Reentering(t) /\ pc[t] = "cli_store" /\ Held(_atomic_mutex, t) >= 2 =>
              Inc32(tmp[t]) = Inc32(_atomic_count)

\* C10: a thread between its read and its write of _atomic_count, in __cli or
\* in __sei, owns _atomic_mutex
CountUnderLock ==
    \A t \in Threads : pc[t] \in {"cli_store", "sei_store"} => Owns(t)

----------------------------------------------------------------------------
(* The counter as the depth of the lock *)

\* no thread is inside __cli or __sei
Quiescent == \A t \in Threads : pc[t] \in {"run", "leave", "exit"}

\* C11: whenever no thread is inside __cli or __sei, _atomic_count is the
\* recursion count of _atomic_mutex (0 when the mutex is free)
DepthEqualsHoldCount ==
    Quiescent => _atomic_count = <<0, _atomic_mutex.count>>

\* the value is 2 or more
AboveOne(c) == c \notin {<<0, 0>>, <<0, 1>>}

\* t takes the step that writes _atomic_count in __cli
CliStoreStep(t) == pc[t] = "cli_store" /\ pc'[t] # "cli_store"

\* t takes the step that writes _atomic_count in __sei
SeiStoreStep(t) == pc[t] = "sei_store" /\ pc'[t] # "sei_store"

\* C12: __cli writes the warning exactly when type is not 0 and the counter
\* after the increment is above 1; it holds the lock and has raised the
\* counter by 1 in either case
AcquireDiagnostic ==
    [][\A t \in Threads :
          CliStoreStep(t) =>
              /\ (stderr' = stderr + 1) <=>
                     (Top(t).sreg_save # 0 /\ AboveOne(_atomic_count'))
              /\ stderr' \in {stderr, stderr + 1}
              /\ _atomic_count' = Inc32(tmp[t])
              /\ Owns(t)]_vars

\* C13: __sei writes the warning exactly when type is not 0 and the counter
\* before the decrement was above 1; it has lowered the counter by 1 and has
\* not yet unlocked the mutex in either case
ReleaseDiagnostic ==
    [][\A t \in Threads :
          SeiStoreStep(t) =>
              /\ (stderr' = stderr + 1) <=>
                     (Top(t).sreg_save # 0 /\ AboveOne(tmp[t]))
              /\ stderr' \in {stderr, stderr + 1}
              /\ _atomic_count' = Dec32(tmp[t])
              /\ _atomic_mutex' = _atomic_mutex
              /\ pc'[t] = "sei_unlock"]_vars

----------------------------------------------------------------------------
(* __sei called by a thread that does not own the mutex *)

\* t takes the step that calls pthread_mutex_unlock in __sei
SeiUnlockStep(t) == pc[t] = "sei_unlock" /\ pc'[t] # "sei_unlock"

\* C16: the pthread_mutex_unlock of a __sei called by a thread that does not
\* own _atomic_mutex leaves the owner and the recursion count of the mutex as
\* they were
NonOwnerReleaseKeepsLock ==
    [][\A t \in Threads :
          SeiUnlockStep(t) /\ ~Owns(t) => _atomic_mutex' = _atomic_mutex]_vars

\* a thread outside any ATOMIC_BLOCK is in the body of a NONATOMIC_BLOCK while
\* another thread is in the body of a nested ATOMIC_BLOCK, holding the lock
\* twice
NonOwnerReleaseKeepsLockWitness ==
    \E t, u \in Threads :
        /\ t # u
        /\ InNonAtomicBody(t) /\ Len(stack[t]) = 1 /\ ~Owns(t)
        /\ InAtomicBody(u) /\ Len(stack[u]) = 2
        /\ Held(_atomic_mutex, u) = 2

----------------------------------------------------------------------------
(* The for statement runs its body once *)

\* C18: the entry action of a block runs once and before the body, the body
\* runs once, whether it ends by falling through, continue, break or return,
\* and the exit action runs after the body
BodyOnce ==
    \A t \in Threads :
        \A i \in 1..Len(stack[t]) :
            LET f == stack[t][i] IN
            /\ f.phase = "init" => f.entered = 0 /\ f.bodies = 0 /\ f.ran = 0
            /\ f.phase = "body" => f.entered = 1 /\ f.bodies = 1 /\ f.ran = 0
            /\ f.phase \in {"cleanup", "left"} =>
                   f.entered = 1 /\ f.bodies = 1 /\ f.ran = 1

\* a block whose body ended with continue has been left after one run of the
\* body
BodyOnceWitness ==
    \E t \in Threads :
        /\ Left(t)
        /\ Top(t).exitPath = "continue" /\ Top(t).bodies = 1

----------------------------------------------------------------------------
(* NONATOMIC_BLOCK used inside ATOMIC_BLOCK only *)

\* a block is entered; a NONATOMIC_BLOCK only where an ATOMIC_BLOCK is around
\* it
EnterInside(t, p) ==
    /\ p \notin AtomicPolicies =>
           \E f \in Frames(t) : f.policy \in AtomicPolicies
    /\ Enter(t, p)

NextInside ==
    \E t \in Threads :
        \/ \E p \in Policies : EnterInside(t, p)
        \/ __cli_lock(t)
        \/ __cli_load(t)
        \/ __cli_store(t)
        \/ __sei_load(t)
        \/ __sei_store(t)
        \/ __sei_unlock(t)
        \/ FallThrough(t)
        \/ Continue(t)
        \/ Break(t)
        \/ Return(t)
        \/ Leave(t)
        \/ ThreadExit(t)

SpecInside == Init /\ [][NextInside]_vars

\* C17: with every NONATOMIC_BLOCK inside an ATOMIC_BLOCK, __cli writes the
\* warning only when the calling thread held the lock before the call, and
\* __sei only when the calling thread still holds it after the call
NoCrossThreadWarning ==
    [][\A t \in Threads :
          /\ CliStoreStep(t) /\ stderr' # stderr =>
                 Held(_atomic_mutex, t) >= 2
          /\ SeiStoreStep(t) /\ stderr' # stderr =>
                 Held(_atomic_mutex, t) >= 2]_vars

----------------------------------------------------------------------------
(* Deadlock and termination *)

\* t waits in pthread_mutex_lock for another thread to unlock the mutex
Blocked(t) == pc[t] = "cli_lock" /\ ~CanLock(_atomic_mutex, t)

\* every thread has run its blocks to the end
AllDone == \A t \in Threads : pc[t] = "exit"

\* C15: while a thread waits in __cli some thread can take a step, and when
\* every thread has finished its blocks the mutex is free
NoDeadlockAndProgress ==
    /\ (\E t \in Threads : Blocked(t)) => ENABLED Next
    /\ AllDone => _atomic_mutex = MutexInit

----------------------------------------------------------------------------
(* The policy of a block, RESTORESTATE or its force twin, and the lock *)

\* the block macro of a policy
Kind(p) == IF p \in AtomicPolicies THEN "ATOMIC_BLOCK" ELSE "NONATOMIC_BLOCK"

\* a frame without its policy, its sreg_save and its warnings: what is left
\* when a policy is replaced by its twin
Skeleton(f) ==
    [ kind |-> Kind(f.policy), ToDo |-> f.ToDo, phase |-> f.phase,
      exitPath |-> f.exitPath, entered |-> f.entered, bodies |-> f.bodies,
      ran |-> f.ran ]

\* the entry action and the cleanup handler of a block macro
KindEntryPc(k) == IF k = "ATOMIC_BLOCK" THEN "cli_lock" ELSE "sei_load"

KindCleanupPc(k) == IF k = "ATOMIC_BLOCK" THEN "sei_load" ELSE "cli_lock"

\* where a thread is whose innermost frame has skeleton k
SkeletonPc(k) ==
    CASE k.phase = "init" -> KindEntryPc(k.kind)
      [] k.phase = "body" -> "run"
      [] k.phase = "cleanup" -> KindCleanupPc(k.kind)
      [] k.phase = "left" -> "leave"

\* t is the thread that takes the step: every step moves its thread
Acting(t) == pc'[t] # pc[t]

\* the mutex, the counter and the value read by t after a step of t, from the
\* position of t and from the mutex, the counter and the value read alone
LockStep(t) ==
    CASE pc[t] = "cli_lock" ->
             <<pthread_mutex_lock(_atomic_mutex, t), _atomic_count, tmp[t]>>
      [] pc[t] \in {"cli_load", "sei_load"} ->
             <<_atomic_mutex, _atomic_count, _atomic_count>>
      [] pc[t] = "cli_store" -> <<_atomic_mutex, Inc32(tmp[t]), Zero32>>
      [] pc[t] = "sei_store" -> <<_atomic_mutex, Dec32(tmp[t]), Zero32>>
      [] pc[t] = "sei_unlock" ->
             <<pthread_mutex_unlock(_atomic_mutex, t), _atomic_count, tmp[t]>>
      [] OTHER -> <<_atomic_mutex, _atomic_count, tmp[t]>>

\* the position and the innermost skeleton of t after a step of t inside
\* __cli or __sei, from its position and its innermost skeleton alone
CallStep(t) ==
    CASE pc[t] = "cli_lock" -> <<"cli_load", Skeleton(Top(t))>>
      [] pc[t] = "cli_load" -> <<"cli_store", Skeleton(Top(t))>>
      [] pc[t] = "sei_load" -> <<"sei_store", Skeleton(Top(t))>>
      [] pc[t] = "sei_store" -> <<"sei_unlock", Skeleton(Top(t))>>
      [] pc[t] \in {"cli_store", "sei_unlock"} ->
             LET after == Skeleton(AfterCall(Top(t)))
             IN <<SkeletonPc(after), after>>

\* the blocks around the innermost block of t are as they were
OuterUnchanged(t) ==
    /\ Len(stack'[t]) = Len(stack[t])
    /\ \A i \in 1..(Len(stack[t]) - 1) : stack'[t][i] = stack[t][i]

InCall(t) ==
    pc[t] \in {"cli_lock", "cli_load", "cli_store",
               "sei_load", "sei_store", "sei_unlock"}

\* t can take a step
CanStep(t) ==
    ENABLED (\/ __sei_unlock(t) \/ Leave(t)
             \/ FallThrough(t) \/ Continue(t) \/ Break(t) \/ Return(t))

====
